---- MODULE Spec2Model ----
(***************************************************************************)
(* A model of adguard-vpn-gui.py: the Qt main window AdGuardVPNGUI, its    *)
(* background Worker threads and the text parsing they feed.               *)
(*                                                                         *)
(* Text is modelled as a sequence of one-character strings, so that the    *)
(* substring tests, splits and case conversions of the code are computed   *)
(* and not assumed.  "ESC" stands for the character \x1B, "QUOTE" for the *)
(* double quote and "GRAVE" for the backquote.  The Russian                *)
(* texts of the user interface are written in Latin transliteration (they  *)
(* contain no upper-case Latin words, as the Cyrillic originals).          *)
(***************************************************************************)
EXTENDS Naturals, Sequences, FiniteSets

(***************************************************************************)
(* Python string operations                                                *)
(***************************************************************************)
UpperChars == <<"A","B","C","D","E","F","G","H","I","J","K","L","M",
                "N","O","P","Q","R","S","T","U","V","W","X","Y","Z">>

LowerChars == <<"a","b","c","d","e","f","g","h","i","j","k","l","m",
                "n","o","p","q","r","s","t","u","v","w","x","y","z">>

DigitChars == <<"0","1","2","3","4","5","6","7","8","9">>

Range(f) == {f[i] : i \in DOMAIN f}

\* str.lower() on one character
LowerChar(c) ==
    IF c \in Range(UpperChars)
    THEN LowerChars[CHOOSE i \in DOMAIN UpperChars : UpperChars[i] = c]
    ELSE c

\* str.lower()
lower(s) == [i \in 1..Len(s) |-> LowerChar(s[i])]

\* s[i:i+len(sub)] == sub
MatchAt(sub, s, i) ==
    /\ i >= 1
    /\ i + Len(sub) - 1 <= Len(s)
    /\ \A k \in 1..Len(sub) : s[i + k - 1] = sub[k]

\* Python's `sub in s`
In(sub, s) == \E i \in 1..(Len(s) + 1) : MatchAt(sub, s, i)

\* str.find, 1-based; 0 when absent
find(s, sub) ==
    IF In(sub, s)
    THEN CHOOSE i \in 1..(Len(s) + 1) :
            /\ MatchAt(sub, s, i)
            /\ \A j \in 1..(i - 1) : ~MatchAt(sub, s, j)
    ELSE 0

\* s.split(sep, 1)
split1(s, sep) ==
    LET i == find(s, sep)
    IN  IF i = 0 THEN <<s>>
        ELSE <<SubSeq(s, 1, i - 1), SubSeq(s, i + Len(sep), Len(s))>>

\* s.split(sep)
RECURSIVE split(_, _)
split(s, sep) ==
    LET i == find(s, sep)
    IN  IF i = 0 THEN <<s>>
        ELSE <<SubSeq(s, 1, i - 1)>> \o split(SubSeq(s, i + Len(sep), Len(s)), sep)

WhiteSpace == {" ", "\n", "\t"}

\* s.strip()
RECURSIVE lstrip(_)
lstrip(s) ==
    IF s # <<>> /\ Head(s) \in WhiteSpace THEN lstrip(Tail(s)) ELSE s

RECURSIVE rstrip(_)
rstrip(s) ==
    IF s # <<>> /\ s[Len(s)] \in WhiteSpace
    THEN rstrip(SubSeq(s, 1, Len(s) - 1)) ELSE s

strip(s) == rstrip(lstrip(s))

\* s.split() with no separator: runs of whitespace separate, no empty tokens
RECURSIVE TakeWord(_)
TakeWord(s) ==
    IF s = <<>> \/ Head(s) \in WhiteSpace THEN <<>>
    ELSE <<Head(s)>> \o TakeWord(Tail(s))

RECURSIVE split_ws(_)
split_ws(s) ==
    LET t == lstrip(s)
        w == TakeWord(t)
    IN  IF t = <<>> THEN <<>>
        ELSE <<w>> \o split_ws(SubSeq(t, Len(w) + 1, Len(t)))

\* sep.join(parts)
RECURSIVE join(_, _)
join(sep, parts) ==
    IF parts = <<>> THEN <<>>
    ELSE IF Len(parts) = 1 THEN parts[1]
    ELSE parts[1] \o sep \o join(sep, Tail(parts))

\* str.isalpha(), str.isdigit()
isalpha(s) ==
    /\ s # <<>>
    /\ \A i \in 1..Len(s) : s[i] \in Range(UpperChars) \cup Range(LowerChars)

isdigit(s) ==
    /\ s # <<>>
    /\ \A i \in 1..Len(s) : s[i] \in Range(DigitChars)

DigitValue(c) == (CHOOSE i \in DOMAIN DigitChars : DigitChars[i] = c) - 1

\* int(s) for a string of digits
RECURSIVE int(_)
int(s) ==
    IF s = <<>> THEN 0
    ELSE 10 * int(SubSeq(s, 1, Len(s) - 1)) + DigitValue(s[Len(s)])

(***************************************************************************)
(* clean_ansi: re.sub of  \x1B(?:[@-Z\\-_]|\[[0-?]*[ -/]*[@-~])            *)
(***************************************************************************)
AnsiSingle == Range(UpperChars) \cup {"@", "\\", "]", "^", "_"}

AnsiParam == Range(DigitChars) \cup {":", ";", "<", "=", ">", "?"}

AnsiInter == {" ", "!", "QUOTE", "#", "$", "%", "&", "'", "(", ")", "*", "+",
              ",", "-", ".", "/"}

AnsiFinal == Range(UpperChars) \cup Range(LowerChars)
             \cup {"@", "[", "\\", "]", "^", "_", "GRAVE", "{", "|", "}", "~"}

\* the first index >= i of s whose character is not in class (Len(s)+1 if none)
RECURSIVE SkipClass(_, _, _)
SkipClass(s, i, class) ==
    IF i <= Len(s) /\ s[i] \in class THEN SkipClass(s, i + 1, class) ELSE i

\* length of the escape sequence the pattern matches at index i, 0 if none
AnsiMatchLen(s, i) ==
    IF s[i] # "ESC" \/ i + 1 > Len(s) THEN 0
    ELSE IF s[i + 1] \in AnsiSingle THEN 2
    ELSE IF s[i + 1] # "[" THEN 0
    ELSE LET j == SkipClass(s, SkipClass(s, i + 2, AnsiParam), AnsiInter)
         IN  IF j <= Len(s) /\ s[j] \in AnsiFinal THEN j - i + 1 ELSE 0

\* the text from index from on, without the leftmost matches
RECURSIVE CleanFrom(_, _)
CleanFrom(s, from) ==
    LET starts == {i \in from..Len(s) : AnsiMatchLen(s, i) > 0}
    IN  IF starts = {} THEN SubSeq(s, from, Len(s))
        ELSE LET i == CHOOSE k \in starts : \A j \in starts : k <= j
             IN  SubSeq(s, from, i - 1) \o CleanFrom(s, i + AnsiMatchLen(s, i))

clean_ansi(text) == CleanFrom(text, 1)

(***************************************************************************)
(* The texts of the program                                                *)
(***************************************************************************)
\* "Loading..."
T_LOADING == <<"Z","a","g","r","u","z","k","a",".",".",".">>

\* "Program not found"
T_NOT_FOUND == <<"P","r","o","g","r","a","m","m","a"," ","n","e"," ","n","a","y","d","e","n","a">>

\* "Not logged in"
T_LOGIN_REQUIRED == <<"N","e"," ","v","y","p","o","l","n","e","n"," ","v","h","o","d">>

T_DISCONNECTED == <<"D","I","S","C","O","N","N","E","C","T","E","D">>

T_CONNECTED == <<"C","O","N","N","E","C","T","E","D">>

\* "Entering password..."
T_PASSWORD == <<"V","v","o","d"," ","p","a","r","o","l","y","a",".",".",".">>

\* the part of it check_status_routine looks for
T_PASSWORD_KEY == <<"V","v","o","d"," ","p","a","r","o","l","y","a">>

\* "Checking..."
T_CHECKING == <<"P","r","o","v","e","r","k","a",".",".",".">>

\* "Cancelled"
T_CANCEL == <<"O","t","m","e","n","a">>

\* "Unknown"
T_UNKNOWN == <<"N","e","i","z","v","e","s","t","n","o">>

\* "No connection"
T_NO_CONNECTION == <<"N","e","t"," ","p","o","d","k","l","y","u","c","h","e","n","i","y","a">>

\* "Location: "
T_LOCATION == <<"L","o","k","a","c","i","y","a",":"," ">>

K_DIS == <<"D","I","S">>

K_disconnected == <<"d","i","s","c","o","n","n","e","c","t","e","d">>

K_vpn_stopped == <<"v","p","n"," ","s","t","o","p","p","e","d">>

K_connected == <<"c","o","n","n","e","c","t","e","d">>

K_successfully == <<"s","u","c","c","e","s","s","f","u","l","l","y">>

K_to == <<"t","o">>

K_connected_to == <<"c","o","n","n","e","c","t","e","d"," ","t","o">>

K_to_sp == <<"t","o"," ">>

K_sp_in_sp == <<" ","i","n"," ">>

K_pkexec == <<"p","k","e","x","e","c">>

K_dismissed == <<"d","i","s","m","i","s","s","e","d">>

K_login == <<"l","o","g","i","n">>

K_auth == <<"a","u","t","h">>

NL == <<"\n">>

SP == <<" ">>

(***************************************************************************)
(* State                                                                   *)
(***************************************************************************)
VARIABLES
    BINARY_PATH,  \* TRUE iff the binary was found at import time
    gui,          \* the AdGuardVPNGUI window: attributes, widgets, pending timers
    queue,        \* finished(bool, str) signals posted to the main thread, in order
    process,      \* "running", "closed" (close accepted) or "aborted"
    popen,        \* detached disconnect commands spawned by closeEvent
    last          \* history: the signal delivered by the last step and gui before it

vars == <<BINARY_PATH, gui, queue, process, popen, last>>

\* Bounds of the model
MaxQueue == 1      \* signals posted and not yet delivered

MaxShots == 2      \* QTimer.singleShot callbacks pending

MaxDetached == 1   \* running workers whose attribute was overwritten

\* Python's None for current_city (no text is this one-element sequence)
None == <<"None">>

\* Worker(cmd, needs_root) after finished.connect(slot) and start(); cmd is
\* BINARY_NAME, a subcommand and, for connect, "-l" and the location code
Worker(sub, code, needs_root, slot) ==
    [sub |-> sub, code |-> code, needs_root |-> needs_root, slot |-> slot,
     st |-> "running"]

\* an attribute w_login / w_status / w_act that holds None
NoWorker ==
    [sub |-> "none", code |-> <<>>, needs_root |-> FALSE, slot |-> "none",
     st |-> "none"]

\* QThread.isRunning(): from start() until run() has returned
isRunning(w) == w.st \in {"running", "emitted"}

\* a worker whose run() has returned: nothing reads its command again
Finished(w) == [NoWorker EXCEPT !.slot = w.slot, !.st = "finished"]

\* The window after init_ui: every control visible and enabled, empty dropdown.
\* dialog and list_age are history: the message box the last handler showed,
\* and whether the dropdown was filled ("fresh") since the last status result
\* was handled or not ("stale"; "none": never filled).
NewWindow ==
    [status_label |-> T_LOADING, info_label |-> <<>>, current_city |-> None,
     is_logged_in |-> FALSE,
     w_login |-> NoWorker, w_status |-> NoWorker, w_act |-> NoWorker,
     btn_connect |-> TRUE, btn_disconnect |-> TRUE, combo_enabled |-> TRUE,
     combo |-> <<>>, combo_index |-> 0,
     visible |-> {"combo", "btn_connect", "btn_disconnect"},
     timers |-> <<>>, detached |-> <<>>, dialog |-> "none",
     list_age |-> "none"]

(***************************************************************************)
(* AdGuardVPNGUI: each method is a function from the window to the window  *)
(***************************************************************************)
\* the assignment self.<attr> = Worker(...): the old worker loses its last
\* reference; if its run() has not emitted yet it is kept as a detached thread
Rebind(s, attr, w) ==
    LET old == s[attr]
        t == [s EXCEPT ![attr] = w]
    IN  IF old.st = "running"
        THEN [t EXCEPT !.detached = Append(s.detached, old)]
        ELSE t

\* set_buttons_logic without the test for "DIS" in the label
set_buttons_logic_no_dis(s) ==
    LET is_connected == In(T_CONNECTED, s.status_label)
    IN  IF is_connected
        THEN [s EXCEPT !.btn_connect = FALSE, !.btn_disconnect = TRUE,
                       !.combo_enabled = FALSE]
        ELSE [s EXCEPT !.btn_connect = TRUE, !.btn_disconnect = FALSE,
                       !.combo_enabled = TRUE]

set_buttons_logic(s) ==
    LET is_connected == /\ In(T_CONNECTED, s.status_label)
                        /\ ~In(K_DIS, s.status_label)
    IN  IF is_connected
        THEN [s EXCEPT !.btn_connect = FALSE, !.btn_disconnect = TRUE,
                       !.combo_enabled = FALSE]
        ELSE [s EXCEPT !.btn_connect = TRUE, !.btn_disconnect = FALSE,
                       !.combo_enabled = TRUE]

show_install_screen(s) ==
    [s EXCEPT !.status_label = T_NOT_FOUND,
              !.visible = (s.visible \ {"combo", "btn_connect", "btn_disconnect",
                                        "btn_login"}) \cup {"btn_install"}]

show_login_screen(s) ==
    [s EXCEPT !.is_logged_in = FALSE,
              !.status_label = T_LOGIN_REQUIRED,
              !.visible = (s.visible \ {"combo", "btn_connect", "btn_disconnect"})
                          \cup {"btn_login"}]

show_main_screen(s) ==
    [s EXCEPT !.is_logged_in = TRUE,
              !.visible = (s.visible \ {"btn_login", "btn_install"})
                          \cup {"combo", "btn_connect", "btn_disconnect"},
              !.combo_enabled = TRUE]

\* the city that parse_and_apply_status reads out of the output
ExtractCity(output, text) ==
    IF In(K_connected_to, text)
    THEN LET parts == split1(output, K_to_sp)
         IN  IF Len(parts) > 1
             THEN IF In(K_sp_in_sp, parts[2])
                  THEN strip(split(parts[2], K_sp_in_sp)[1])
                  ELSE strip(split(parts[2], NL)[1])
             ELSE T_UNKNOWN
    ELSE T_UNKNOWN

\* parse_and_apply_status with the two tests in the other order: "connected"
\* is looked for before "disconnected"
parse_and_apply_status_connected_first(s, output) ==
    LET text == lower(output)
        s1 == IF In(K_connected, text)
                 /\ (In(K_successfully, text) \/ In(K_to, text))
              THEN IF ~In(T_CONNECTED, s.status_label)
                   THEN LET city == ExtractCity(output, text)
                        IN  set_buttons_logic(
                                [s EXCEPT !.status_label = T_CONNECTED,
                                          !.info_label = T_LOCATION \o city,
                                          !.current_city = city])
                   ELSE s
              ELSE IF In(K_disconnected, text) \/ In(K_vpn_stopped, text)
              THEN IF ~In(T_DISCONNECTED, s.status_label)
                   THEN set_buttons_logic(
                            [s EXCEPT !.status_label = T_DISCONNECTED,
                                      !.info_label = T_NO_CONNECTION,
                                      !.current_city = None])
                   ELSE s
              ELSE s
    IN  IF ~In(T_CONNECTED, s1.status_label)
        THEN [s1 EXCEPT !.combo_enabled = TRUE]
        ELSE s1

parse_and_apply_status(s, output) ==
    LET text == lower(output)
        s1 == IF In(K_disconnected, text) \/ In(K_vpn_stopped, text)
              THEN IF ~In(T_DISCONNECTED, s.status_label)
                   THEN set_buttons_logic(
                            [s EXCEPT !.status_label = T_DISCONNECTED,
                                      !.info_label = T_NO_CONNECTION,
                                      !.current_city = None])
                   ELSE s
              ELSE IF In(K_connected, text)
                      /\ (In(K_successfully, text) \/ In(K_to, text))
              THEN IF ~In(T_CONNECTED, s.status_label)
                   THEN LET city == ExtractCity(output, text)
                        IN  set_buttons_logic(
                                [s EXCEPT !.status_label = T_CONNECTED,
                                          !.info_label = T_LOCATION \o city,
                                          !.current_city = city])
                   ELSE s
              ELSE s
    IN  IF ~In(T_CONNECTED, s1.status_label)
        THEN [s1 EXCEPT !.combo_enabled = TRUE]
        ELSE s1

\* KeepLine without the test of the first token
KeepLine_any_code(line) ==
    LET parts == split_ws(line)
    IN  /\ ~(Len(parts) < 3)
        /\ isdigit(parts[Len(parts)])

\* one line of the list-locations output: kept or dropped
KeepLine(line) ==
    LET parts == split_ws(line)
    IN  /\ ~(Len(parts) < 3)
        /\ ~(Len(parts[1]) # 2 \/ ~isalpha(parts[1]))
        /\ isdigit(parts[Len(parts)])

\* the tuple (ping, display_text, country_code) of a kept line
LocationOf(line) ==
    LET parts == split_ws(line)
        id_code == parts[1]
        ping_str == parts[Len(parts)]
    IN  [ping |-> int(ping_str),
         display |-> <<"[">> \o ping_str \o <<" ","m","s","]"," "," ">>
                     \o join(SP, SubSeq(parts, 2, Len(parts) - 1))
                     \o <<" ","(">> \o id_code \o <<")">>,
         code |-> id_code]

RECURSIVE Locations(_)
Locations(lines) ==
    IF lines = <<>> THEN <<>>
    ELSE IF KeepLine(Head(lines))
         THEN <<LocationOf(Head(lines))>> \o Locations(Tail(lines))
         ELSE Locations(Tail(lines))

\* list.sort(key=lambda x: x[0]): stable, ascending by ping
RECURSIVE InsertLocation(_, _)
InsertLocation(sorted, loc) ==
    IF sorted = <<>> THEN <<loc>>
    ELSE IF Head(sorted).ping <= loc.ping
         THEN <<Head(sorted)>> \o InsertLocation(Tail(sorted), loc)
         ELSE <<loc>> \o sorted

\* locations left in the order of the output
sort_none(locations) == locations

RECURSIVE sort(_)
sort(locations) ==
    IF locations = <<>> THEN <<>>
    ELSE InsertLocation(sort(SubSeq(locations, 1, Len(locations) - 1)),
                        locations[Len(locations)])

select_combo_text(s, text) ==
    IF text = None \/ text = <<>> THEN s
    ELSE LET t == lower(text)
             hits == {i \in 1..Len(s.combo) : In(t, lower(s.combo[i].text))}
         IN  IF hits = {} THEN s
             ELSE [s EXCEPT !.combo_index =
                        CHOOSE i \in hits : \A j \in hits : i <= j]

\* combo.clear(), then combo.addItem(display, code) for each sorted location;
\* the first item added to an empty QComboBox becomes the current one
parse_locations(s, output) ==
    LET locations == sort(Locations(split(output, NL)))
        items == [i \in 1..Len(locations) |->
                     [text |-> locations[i].display, data |-> locations[i].code]]
        s1 == [s EXCEPT !.combo = items,
                        !.combo_index = IF items = <<>> THEN 0 ELSE 1]
        s2 == IF s1.current_city # None /\ s1.current_city # <<>>
              THEN select_combo_text(s1, s1.current_city)
              ELSE s1
        s3 == [s2 EXCEPT !.combo_enabled = TRUE, !.list_age = "fresh"]
    IN  IF ~In(T_CONNECTED, s3.status_label)
        THEN [s3 EXCEPT !.btn_connect = TRUE]
        ELSE s3

check_login(s) ==
    Rebind(s, "w_login", Worker("list-locations", <<>>, FALSE, "on_login_checked"))

\* check_status_routine without the test for a poll that is still running
check_status_routine_unguarded(s) ==
    IF ~s.is_logged_in THEN s
    ELSE IF In(T_PASSWORD_KEY, s.status_label) THEN s
    ELSE Rebind(s, "w_status", Worker("status", <<>>, FALSE, "update_status_ui"))

\* check_status_routine without the test for the awaiting-password text
check_status_routine_during_prompt(s) ==
    IF ~s.is_logged_in THEN s
    ELSE IF s.w_status # NoWorker /\ isRunning(s.w_status) THEN s
    ELSE Rebind(s, "w_status", Worker("status", <<>>, FALSE, "update_status_ui"))

check_status_routine(s) ==
    IF ~s.is_logged_in THEN s
    ELSE IF In(T_PASSWORD_KEY, s.status_label) THEN s
    ELSE IF s.w_status # NoWorker /\ isRunning(s.w_status) THEN s
    ELSE Rebind(s, "w_status", Worker("status", <<>>, FALSE, "update_status_ui"))

on_login_checked(s, success, output) ==
    IF ~success /\ (In(K_login, lower(output)) \/ In(K_auth, lower(output)))
    THEN show_login_screen(s)
    ELSE LET s1 == show_main_screen(s)
             s2 == IF success THEN parse_locations(s1, output) ELSE s1
         IN  check_status_routine(s2)

\* update_status_ui that also parses the output of the poll as a list of
\* locations
update_status_ui_reparse(s, success, output) ==
    IF ~s.is_logged_in THEN s
    ELSE parse_locations(parse_and_apply_status(s, output), output)

update_status_ui(s, success, output) ==
    IF ~s.is_logged_in THEN s
    ELSE parse_and_apply_status(s, output)

\* history: a poll cycle ends when its result has been handled
EndOfPoll(s) == [s EXCEPT !.list_age = IF @ = "fresh" THEN "stale" ELSE @]

\* combo.currentData(): None when nothing is selected
currentData(s) ==
    IF s.combo_index = 0 THEN None ELSE s.combo[s.combo_index].data

\* connect_vpn without the test for a selected location
connect_vpn_any_code(s) ==
    LET code == currentData(s)
    IN  Rebind([s EXCEPT !.btn_connect = FALSE,
                         !.btn_disconnect = FALSE,
                         !.combo_enabled = FALSE,
                         !.status_label = T_PASSWORD],
               "w_act", Worker("connect", code, TRUE, "on_act_done"))

connect_vpn(s) ==
    LET code == currentData(s)
    IN  IF code = None \/ code = <<>>
        THEN [s EXCEPT !.dialog = "select_location"]
        ELSE Rebind([s EXCEPT !.btn_connect = FALSE,
                              !.btn_disconnect = FALSE,
                              !.combo_enabled = FALSE,
                              !.status_label = T_PASSWORD],
                    "w_act", Worker("connect", code, TRUE, "on_act_done"))

disconnect_vpn(s) ==
    Rebind([s EXCEPT !.btn_connect = FALSE,
                     !.btn_disconnect = FALSE,
                     !.status_label = T_PASSWORD],
           "w_act", Worker("disconnect", <<>>, TRUE, "on_act_done"))

\* on_act_done showing the command's output in the label instead of the
\* checking text
on_act_done_show_output(s, success, output) ==
    LET s1 == IF success
              THEN LET p == parse_and_apply_status(s, output)
                   IN  IF ~In(T_CONNECTED, p.status_label)
                          /\ ~In(T_DISCONNECTED, p.status_label)
                       THEN [p EXCEPT !.status_label = output]
                       ELSE p
              ELSE check_status_routine(
                       [s EXCEPT !.dialog = IF In(T_CANCEL, output)
                                            THEN "cancelled" ELSE "error"])
    IN  [s1 EXCEPT !.timers =
            s.timers \o <<"set_buttons_logic">>
            \o (IF success THEN <<"check_status_routine">> ELSE <<>>)]

\* QTimer.singleShot(ms, callback): timers lists the pending callbacks in the
\* order they are due; the 500 ms set_buttons_logic of a call is due before
\* its 1500 ms check_status_routine
on_act_done(s, success, output) ==
    LET s1 == IF success
              THEN LET p == parse_and_apply_status(s, output)
                   IN  IF ~In(T_CONNECTED, p.status_label)
                          /\ ~In(T_DISCONNECTED, p.status_label)
                       THEN [p EXCEPT !.status_label = T_CHECKING]
                       ELSE p
              ELSE check_status_routine(
                       [s EXCEPT !.dialog = IF In(T_CANCEL, output)
                                            THEN "cancelled" ELSE "error"])
    IN  [s1 EXCEPT !.timers =
            s.timers \o <<"set_buttons_logic">>
            \o (IF success THEN <<"check_status_routine">> ELSE <<>>)]

(***************************************************************************)
(* The external commands: what subprocess.run can produce                  *)
(***************************************************************************)
\* a command that exited with returncode, having written stdout and stderr
Exit(returncode, stdout, stderr) ==
    [kind |-> "exit", returncode |-> returncode, stdout |-> stdout,
     stderr |-> stderr, text |-> <<>>]

\* subprocess.run raised (TimeoutExpired after 300 s, OSError); text is str(e)
Raise(text) ==
    [kind |-> "raise", returncode |-> 0, stdout |-> <<>>, stderr |-> <<>>,
     text |-> text]

NoOutcome ==
    [kind |-> "none", returncode |-> 0, stdout |-> <<>>, stderr |-> <<>>,
     text |-> <<>>]

\* str(TimeoutExpired), without the command line
OUT_TIMEOUT == <<"t","i","m","e","d"," ","o","u","t"," ","a","f","t","e","r"," ","3","0","0"," ","s","e","c","o","n","d","s">>

\* str(OSError) when the shell cannot be started
OUT_OSERROR == <<"C","a","n","n","o","t"," ","a","l","l","o","c","a","t","e"," ","m","e","m","o","r","y">>

OUT_CONNECTED_ROME == <<"C","o","n","n","e","c","t","e","d"," ","t","o"," ","R","O","M","E"," ","i","n"," ","T","U","N"," ","m","o","d","e">>

\* coloured, as the CLI prints on a terminal
OUT_DISCONNECTED == <<"ESC","[","1",";","3","1","m","V","P","N"," ","i","s"," ","d","i","s","c","o","n","n","e","c","t","e","d","ESC","[","0","m","\n">>

OUT_CONNECTING == <<"C","o","n","n","e","c","t","i","n","g">>

OUT_STOPPED == <<"E","r","r","o","r",":"," ","V","P","N"," ","s","t","o","p","p","e","d">>

OUT_OK_ROME == <<"S","u","c","c","e","s","s","f","u","l","l","y"," ","C","o","n","n","e","c","t","e","d"," ","t","o"," ","R","O","M","E","\n">>

OUT_OK_OSLO == <<"S","u","c","c","e","s","s","f","u","l","l","y"," ","C","o","n","n","e","c","t","e","d"," ","t","o"," ","O","S","L","O","\n">>

OUT_OK_DISCONNECT == <<"S","u","c","c","e","s","s","f","u","l","l","y"," ","d","i","s","c","o","n","n","e","c","t","e","d">>

OUT_DONE == <<"D","o","n","e">>

OUT_DISMISSED == <<"p","k","e","x","e","c",":"," ","R","e","q","u","e","s","t"," ","d","i","s","m","i","s","s","e","d">>

\* contains "auth", shown as an error by on_act_done
OUT_NOT_AUTHORIZED == <<"E","r","r","o","r",":"," ","N","o","t"," ","a","u","t","h","o","r","i","z","e","d">>

OUT_LOCATIONS == <<"I","S","O"," ","C","O","U","N","T","R","Y"," ","C","I","T","Y"," ","P","I","N","G","\n","N","O"," ","N","o","r","w","a","y"," ","O","S","L","O"," ","4","0","\n","I","T"," ","I","t","a","l","y"," ","R","O","M","E"," ","2","5","\n">>

OUT_NEED_LOGIN == <<"P","l","e","a","s","e"," ","l","o","g"," ","i","n",":"," ","a","d","g","u","a","r","d","v","p","n","-","c","l","i"," ","l","o","g","i","n">>

OUT_NETWORK == <<"N","e","t","w","o","r","k"," ","i","s"," ","u","n","r","e","a","c","h","a","b","l","e">>

CODE_IT == <<"I","T">>

CODE_NO == <<"N","O">>

StatusOutcomes ==
    {Exit(0, OUT_CONNECTED_ROME, <<>>), Exit(0, OUT_DISCONNECTED, <<>>),
     Exit(0, OUT_CONNECTING, <<>>), Exit(1, <<>>, OUT_STOPPED),
     Raise(OUT_TIMEOUT)}

ConnectOutcomes(code) ==
    {Exit(0, IF code = CODE_IT THEN OUT_OK_ROME ELSE OUT_OK_OSLO, <<>>),
     Exit(0, OUT_DONE, <<>>), Exit(126, <<>>, OUT_DISMISSED),
     Raise(OUT_TIMEOUT)}

DisconnectOutcomes ==
    {Exit(0, OUT_OK_DISCONNECT, <<>>), Exit(126, <<>>, OUT_DISMISSED),
     Exit(127, <<>>, OUT_NOT_AUTHORIZED), Raise(OUT_OSERROR)}

LoginOutcomes ==
    {Exit(0, OUT_LOCATIONS, <<>>), Exit(1, <<>>, OUT_NEED_LOGIN),
     Exit(1, <<>>, OUT_NETWORK), Raise(OUT_TIMEOUT)}

\* what running the command of worker w can produce
Outcomes(w) ==
    IF w.sub = "status" THEN StatusOutcomes
    ELSE IF w.sub = "connect" THEN ConnectOutcomes(w.code)
    ELSE IF w.sub = "disconnect" THEN DisconnectOutcomes
    ELSE LoginOutcomes

(***************************************************************************)
(* Worker.run                                                              *)
(***************************************************************************)
\* finished.emit(success, output), posted for the slot the signal is connected to
Emit(w, success, output) ==
    [slot |-> w.slot, success |-> success, output |-> output]

\* Worker.run that stays silent when subprocess.run raises
Worker_run_silent(w, o) ==
    IF o.kind = "raise"
    THEN <<>>
    ELSE LET stdout == strip(clean_ansi(o.stdout))
             stderr == strip(clean_ansi(o.stderr))
             full_output == stdout \o NL \o stderr
         IN  IF o.returncode = 0
             THEN <<Emit(w, TRUE, full_output)>>
             ELSE IF In(K_pkexec, full_output) /\ In(K_dismissed, full_output)
                  THEN <<Emit(w, FALSE, T_CANCEL)>>
                  ELSE <<Emit(w, FALSE, full_output)>>

\* Worker.run without the special case of a dismissed privilege prompt
Worker_run_no_cancel(w, o) ==
    IF o.kind = "raise"
    THEN <<Emit(w, FALSE, o.text)>>
    ELSE LET stdout == strip(clean_ansi(o.stdout))
             stderr == strip(clean_ansi(o.stderr))
             full_output == stdout \o NL \o stderr
         IN  IF o.returncode = 0
             THEN <<Emit(w, TRUE, full_output)>>
             ELSE <<Emit(w, FALSE, full_output)>>

\* the signals one run() emits, in order, when subprocess.run gives outcome o
Worker_run(w, o) ==
    IF o.kind = "raise"
    THEN <<Emit(w, FALSE, o.text)>>
    ELSE LET stdout == strip(clean_ansi(o.stdout))
             stderr == strip(clean_ansi(o.stderr))
             full_output == stdout \o NL \o stderr
         IN  IF o.returncode = 0
             THEN <<Emit(w, TRUE, full_output)>>
             ELSE IF In(K_pkexec, full_output) /\ In(K_dismissed, full_output)
                  THEN <<Emit(w, FALSE, T_CANCEL)>>
                  ELSE <<Emit(w, FALSE, full_output)>>

(***************************************************************************)
(* closeEvent: what it does to the event and whether it spawns the         *)
(* detached disconnect command                                             *)
(***************************************************************************)
\* closeEvent without the test for "DIS" in the label
closeEvent_no_dis(s, reply) ==
    LET is_connected_strict == In(T_CONNECTED, s.status_label)
    IN  IF is_connected_strict
        THEN IF reply = "Yes" THEN [event |-> "accept", spawn |-> 1, asked |-> TRUE]
             ELSE IF reply = "No" THEN [event |-> "accept", spawn |-> 0, asked |-> TRUE]
             ELSE [event |-> "ignore", spawn |-> 0, asked |-> TRUE]
        ELSE [event |-> "accept", spawn |-> 0, asked |-> FALSE]

closeEvent(s, reply) ==
    LET is_connected_strict == /\ In(T_CONNECTED, s.status_label)
                               /\ ~In(K_DIS, s.status_label)
    IN  IF is_connected_strict
        THEN IF reply = "Yes" THEN [event |-> "accept", spawn |-> 1, asked |-> TRUE]
             ELSE IF reply = "No" THEN [event |-> "accept", spawn |-> 0, asked |-> TRUE]
             ELSE [event |-> "ignore", spawn |-> 0, asked |-> TRUE]
        ELSE [event |-> "accept", spawn |-> 0, asked |-> FALSE]

(***************************************************************************)
(* Steps of the program                                                    *)
(***************************************************************************)
\* what the history keeps of a window
View(s) ==
    [status_label |-> s.status_label, current_city |-> s.current_city,
     is_logged_in |-> s.is_logged_in, btn_connect |-> s.btn_connect,
     btn_disconnect |-> s.btn_disconnect, combo_enabled |-> s.combo_enabled,
     combo |-> s.combo, combo_index |-> s.combo_index,
     list_age |-> s.list_age]

NoLast ==
    [op |-> "none", success |-> FALSE, output |-> <<>>, outcome |-> NoOutcome,
     emitted |-> <<>>, reply |-> "none", pre |-> View(NewWindow)]

\* a handler starts with no message box shown
Begin(s) == [s EXCEPT !.dialog = "none"]

\* the model's bounds on the threads and single shots a window may hold
Fits(t) == Len(t.detached) <= MaxDetached /\ Len(t.timers) <= MaxShots

\* The main thread ends a handler in window t, with q the signals still
\* posted and l the history.  When the handler overwrote the attribute of a
\* worker that was still running, PyQt deletes a running QThread: the thread
\* either runs on unreferenced or Qt aborts the process ("QThread: Destroyed
\* while thread is still running").  A process that ended has no state left.
Commit(t, q, l) ==
    /\ Fits(t)
    /\ \/ /\ gui' = t
          /\ queue' = q
          /\ last' = l
          /\ process' = process
       \/ /\ Len(t.detached) > Len(gui.detached)
          /\ gui' = NewWindow
          /\ queue' = <<>>
          /\ last' = NoLast
          /\ process' = "aborted"

\* __init__: the window, and with a binary the 5 s timer and the 100 ms
\* single shot of check_login
Init ==
    /\ BINARY_PATH \in BOOLEAN
    /\ gui = IF BINARY_PATH
             THEN [NewWindow EXCEPT !.timers = <<"check_login">>]
             ELSE show_install_screen(NewWindow)
    /\ queue = <<>>
    /\ process = "running"
    /\ popen = 0
    /\ last = NoLast

\* self.timer.timeout, every 5000 ms
TimerTick ==
    /\ process = "running"
    /\ BINARY_PATH
    /\ Commit(check_status_routine(Begin(gui)), queue, NoLast)
    /\ UNCHANGED <<BINARY_PATH, popen>>

\* a pending single shot may fire when all that is due before it has fired: a
\* 500 ms shot may pass 1500 ms shots of earlier calls, nothing else passes
CanFire(i) ==
    \A j \in 1..(i - 1) : /\ gui.timers[j] = "check_status_routine"
                          /\ gui.timers[i] = "set_buttons_logic"

RemoveAt(seq, i) == SubSeq(seq, 1, i - 1) \o SubSeq(seq, i + 1, Len(seq))

\* the window after the i-th pending single shot has called its slot
Fired(i) ==
    LET s == Begin([gui EXCEPT !.timers = RemoveAt(gui.timers, i)])
        fn == gui.timers[i]
    IN  IF fn = "check_login" THEN check_login(s)
        ELSE IF fn = "check_status_routine" THEN check_status_routine(s)
        ELSE set_buttons_logic(s)

SingleShot(i) ==
    /\ process = "running"
    /\ i \in 1..Len(gui.timers)
    /\ CanFire(i)
    /\ Commit(Fired(i), queue, NoLast)
    /\ UNCHANGED <<BINARY_PATH, popen>>

\* The thread of the worker held by attribute attr runs its command to the end
\* and emits.  Only w_status is ever asked isRunning(), so only for it is the
\* return of run() a step of its own.
WorkerRuns(attr) ==
    /\ process = "running"
    /\ gui[attr].st = "running"
    /\ Len(queue) < MaxQueue
    /\ \E o \in Outcomes(gui[attr]) :
          LET emitted == Worker_run(gui[attr], o)
          IN  /\ queue' = queue \o emitted
              /\ last' = [NoLast EXCEPT !.op = "Worker.run", !.outcome = o,
                                        !.emitted = emitted]
    /\ gui' = [Begin(gui) EXCEPT ![attr] = IF attr = "w_status"
                                            THEN [@ EXCEPT !.st = "emitted"]
                                            ELSE Finished(@)]
    /\ UNCHANGED <<BINARY_PATH, process, popen>>

\* the same for a running worker that no attribute holds any more
DetachedRuns(i) ==
    /\ process = "running"
    /\ i \in 1..Len(gui.detached)
    /\ Len(queue) < MaxQueue
    /\ \E o \in Outcomes(gui.detached[i]) :
          LET emitted == Worker_run(gui.detached[i], o)
          IN  /\ queue' = queue \o emitted
              /\ last' = [NoLast EXCEPT !.op = "Worker.run", !.outcome = o,
                                        !.emitted = emitted]
    /\ gui' = [Begin(gui) EXCEPT !.detached = RemoveAt(gui.detached, i)]
    /\ UNCHANGED <<BINARY_PATH, process, popen>>

\* run() of the status worker returns: isRunning() becomes False
WorkerExits ==
    /\ process = "running"
    /\ gui.w_status.st = "emitted"
    /\ gui' = [Begin(gui) EXCEPT !.w_status = Finished(@)]
    /\ last' = NoLast
    /\ UNCHANGED <<BINARY_PATH, queue, process, popen>>

\* the window after the slot of signal e has handled it
Delivered(e) ==
    LET s == Begin(gui)
    IN  IF e.slot = "on_login_checked"
        THEN on_login_checked(s, e.success, e.output)
        ELSE IF e.slot = "update_status_ui"
        THEN EndOfPoll(update_status_ui(s, e.success, e.output))
        ELSE on_act_done(s, e.success, e.output)

\* the main thread delivers the oldest posted signal to its slot
Deliver ==
    /\ process = "running"
    /\ queue # <<>>
    /\ LET e == Head(queue)
       IN  Commit(Delivered(e),
                  Tail(queue),
                  [NoLast EXCEPT !.op = e.slot, !.success = e.success,
                                 !.output = e.output, !.pre = View(gui)])
    /\ UNCHANGED <<BINARY_PATH, popen>>

\* the user clicks a button that is shown and enabled
ClickConnect ==
    /\ process = "running"
    /\ "btn_connect" \in gui.visible
    /\ gui.btn_connect
    /\ Commit(connect_vpn(Begin(gui)), queue, NoLast)
    /\ UNCHANGED <<BINARY_PATH, popen>>

ClickDisconnect ==
    /\ process = "running"
    /\ "btn_disconnect" \in gui.visible
    /\ gui.btn_disconnect
    /\ Commit(disconnect_vpn(Begin(gui)), queue, NoLast)
    /\ UNCHANGED <<BINARY_PATH, popen>>

\* the user picks another entry of the dropdown
SelectLocation(i) ==
    /\ process = "running"
    /\ "combo" \in gui.visible
    /\ gui.combo_enabled
    /\ i \in 1..Len(gui.combo)
    /\ i # gui.combo_index
    /\ gui' = [Begin(gui) EXCEPT !.combo_index = i]
    /\ last' = NoLast
    /\ UNCHANGED <<BINARY_PATH, queue, process, popen>>

\* the user closes the window and, if asked, answers the question; an
\* accepted close ends the event loop and the process
CloseWindow(reply) ==
    /\ process = "running"
    /\ LET r == closeEvent(gui, reply)
           d == IF r.asked THEN "close_question" ELSE "none"
       IN  /\ r.asked \/ reply = "Yes"
           /\ popen' = popen + r.spawn
           /\ IF r.event = "accept"
              THEN /\ process' = "closed"
                   /\ gui' = [NewWindow EXCEPT !.dialog = d]
                   /\ queue' = <<>>
              ELSE /\ process' = process
                   /\ gui' = [gui EXCEPT !.dialog = d]
                   /\ queue' = queue
    /\ last' = [NoLast EXCEPT !.op = "closeEvent", !.reply = reply,
                              !.pre.status_label = gui.status_label]
    /\ UNCHANGED BINARY_PATH

WorkerAttrs == {"w_login", "w_status", "w_act"}

Next ==
    \/ TimerTick
    \/ \E i \in 1..MaxShots : SingleShot(i)
    \/ \E attr \in WorkerAttrs : WorkerRuns(attr)
    \/ \E i \in 1..MaxDetached : DetachedRuns(i)
    \/ WorkerExits
    \/ Deliver
    \/ ClickConnect
    \/ ClickDisconnect
    \/ \E i \in 1..Len(gui.combo) : SelectLocation(i)
    \/ \E reply \in {"Yes", "No", "Cancel"} : CloseWindow(reply)

Spec == Init /\ [][Next]_vars

(***************************************************************************)
(* parse_locations on arbitrary list-locations output: the login check     *)
(* delivers the output of a successful command made of any lines below     *)
(***************************************************************************)
MaxLines == 3      \* lines of a list-locations output

LINE_DE == <<"D","E"," ","G","e","r","m","a","n","y"," ","B","E","R","L","I","N"," ","4","0">>

LINE_IT == <<"I","T"," ","I","t","a","l","y"," ","R","O","M","E"," ","2","5">>

\* the same ping as LINE_IT
LINE_NO == <<"N","O"," ","N","o","r","w","a","y"," ","O","S","L","O"," ","2","5">>

LINE_TWO_TOKENS == <<"U","S"," ","1","0">>

LINE_LONG_CODE == <<"G","B","R"," ","B","r","i","t","a","i","n"," ","L","O","N","D","O","N"," ","3","0">>

LINE_DIGIT_CODE == <<"F","1"," ","F","r","a","n","c","e"," ","P","A","R","I","S"," ","2","0">>

LINE_BAD_PING == <<"E","S"," ","S","p","a","i","n"," ","M","A","D","R","I","D"," ","3","x">>

\* runs of whitespace, a two-word city, leading zeros
LINE_SPACED == <<"s","e"," "," ","S","w","e","d","e","n"," "," ","N","e","w"," ","T","o","w","n","	","0","0","7"," ">>

LocLines ==
    {LINE_DE, LINE_IT, LINE_NO, LINE_TWO_TOKENS,
     LINE_LONG_CODE, LINE_DIGIT_CODE, LINE_BAD_PING, LINE_SPACED}

\* the outputs of up to MaxLines lines
LocOutputs ==
    {join(NL, lines) : lines \in UNION {[1..k -> LocLines] : k \in 0..MaxLines}}

\* the window once check_login has started the worker and it has run
LoginRan == [check_login(NewWindow) EXCEPT !.w_login = Finished(@)]

LocInit ==
    /\ BINARY_PATH = TRUE
    /\ gui = LoginRan
    /\ \E stdout \in LocOutputs :
          queue = Worker_run(check_login(NewWindow).w_login, Exit(0, stdout, <<>>))
    /\ process = "running"
    /\ popen = 0
    /\ last = NoLast

LocSpec == LocInit /\ [][Deliver]_vars

(***************************************************************************)
(* Fairness: every started thread is scheduled and subprocess.run returns  *)
(* or raises within its 300 s timeout; the event loop delivers what is     *)
(* posted and fires what is due.  (Strong fairness for the threads: the    *)
(* bound on the queue, which suspends them, is the model's.)               *)
(*                                                                         *)
(* WF and SF are written out by their definitions,                         *)
(*     WF_v(A) == []<>~ENABLED <<A>>_v \/ []<><<A>>_v                      *)
(*     SF_v(A) == <>[]~ENABLED <<A>>_v \/ []<><<A>>_v                      *)
(* with ENABLED given as a state predicate (the guard of the action, and   *)
(* that the window it leads to fits the bounds) and the step of the action *)
(* recognised by what it alone does to the state.  StepsAgree states that  *)
(* the steps so recognised are the steps of the actions.                   *)
(***************************************************************************)
WorkerRunsEnabled(attr) ==
    process = "running" /\ gui[attr].st = "running" /\ Len(queue) < MaxQueue

DetachedRunsEnabled(i) ==
    process = "running" /\ i \in 1..Len(gui.detached) /\ Len(queue) < MaxQueue

DeliverEnabled ==
    process = "running" /\ queue # <<>> /\ Fits(Delivered(Head(queue)))

SingleShotEnabled(i) ==
    /\ process = "running"
    /\ i \in 1..Len(gui.timers)
    /\ CanFire(i)
    /\ Fits(Fired(i))

\* only run() takes the worker of an attribute from running to emitted or
\* finished
RunStep(attr) ==
    gui[attr].st = "running" /\ gui'[attr].st \in {"emitted", "finished"}

\* only the run() of a detached worker takes it off gui.detached
DetachedStep(i) ==
    /\ i \in 1..Len(gui.detached)
    /\ gui'.detached = RemoveAt(gui.detached, i)

\* only the delivery of a signal records a slot as the last operation
DeliverStep ==
    queue # <<>> /\ last'.op \in {"on_login_checked", "update_status_ui", "on_act_done"}

\* only a single shot that fires takes itself off gui.timers
ShotStep(i) ==
    /\ i \in 1..Len(gui.timers)
    /\ CanFire(i)
    /\ gui'.timers = RemoveAt(gui.timers, i)
    /\ last'.op = "none"

\* Among the steps that leave the process running (all but one step of a
\* behaviour), the steps recognised above are those of the actions.
StepsAgree ==
    [][process' = "running" =>
          /\ \A attr \in WorkerAttrs : WorkerRuns(attr) <=> RunStep(attr)
          /\ \A i \in 1..MaxDetached : DetachedRuns(i) <=> DetachedStep(i)
          /\ Deliver <=> DeliverStep
          /\ \A i \in 1..MaxShots : SingleShot(i) <=> ShotStep(i)]_vars

\* the steps of a window that the user neither closes nor picks another
\* location in
FairNext ==
    \/ TimerTick
    \/ \E i \in 1..MaxShots : SingleShot(i)
    \/ \E attr \in WorkerAttrs : WorkerRuns(attr)
    \/ \E i \in 1..MaxDetached : DetachedRuns(i)
    \/ WorkerExits
    \/ Deliver
    \/ ClickConnect
    \/ ClickDisconnect

FairSpec ==
    /\ Init
    /\ [][FairNext]_vars
    /\ \A attr \in WorkerAttrs :
          <>[]~WorkerRunsEnabled(attr) \/ []<><<RunStep(attr)>>_vars
    /\ \A i \in 1..MaxDetached :
          <>[]~DetachedRunsEnabled(i) \/ []<><<DetachedStep(i)>>_vars
    /\ WF_vars(WorkerExits)
    /\ []<>~DeliverEnabled \/ []<><<DeliverStep>>_vars
    /\ \A i \in 1..MaxShots :
          []<>~SingleShotEnabled(i) \/ []<><<ShotStep(i)>>_vars

(***************************************************************************)
(* Properties                                                              *)
(***************************************************************************)
CITY_ROME == <<"R","O","M","E">>

CITY_OSLO == <<"O","S","L","O">>

\* the last step applied parse_and_apply_status to last.output
ClassifierApplied ==
    \/ last.op = "update_status_ui" /\ last.pre.is_logged_in
    \/ last.op = "on_act_done" /\ last.success

SaysDisconnected(output) ==
    In(K_disconnected, lower(output)) \/ In(K_vpn_stopped, lower(output))

\* output contains "connected to X in "
SaysConnectedTo(output, X) ==
    In(<<"o","n","n","e","c","t","e","d"," ","t","o"," ">> \o X \o K_sp_in_sp,
       output)

Indeterminate(output) ==
    /\ ~SaysDisconnected(output)
    /\ ~(/\ In(K_connected, lower(output))
         /\ In(K_successfully, lower(output)) \/ In(K_to, lower(output)))

\* C1: after the classifier is applied to output containing "connected to X in
\* Y" (and no "disconnected" / "vpn stopped"), the label is CONNECTED and the
\* current city is X, whatever the label was before.
C1_Claim ==
    \A X \in {CITY_ROME, CITY_OSLO} :
        (ClassifierApplied /\ SaysConnectedTo(last.output, X)
                           /\ ~SaysDisconnected(last.output))
        => (gui.status_label = T_CONNECTED /\ gui.current_city = X)

\* C2: after the classifier is applied to output containing "disconnected" or
\* "vpn stopped" (in any case), the label is DISCONNECTED and there is no
\* current city, whatever the label was before.
C2_Disconnected ==
    (ClassifierApplied /\ SaysDisconnected(last.output))
    => (gui.status_label = T_DISCONNECTED /\ gui.current_city = None)

\* C2 witness: a poll saying "disconnected" handled while the label was CONNECTED
C2_Witness ==
    /\ last.op = "update_status_ui"
    /\ SaysDisconnected(last.output)
    /\ last.pre.status_label = T_CONNECTED
    /\ gui.status_label = T_DISCONNECTED

\* action workers started whose result on_act_done has not handled yet
ActInFlight ==
    (IF gui.w_act.st = "running" THEN 1 ELSE 0)
    + Cardinality({i \in DOMAIN gui.detached : gui.detached[i].slot = "on_act_done"})
    + Cardinality({i \in DOMAIN queue : queue[i].slot = "on_act_done"})

\* C3: at most one action command (connect or disconnect) is in flight: no
\* action worker is started before on_act_done has handled the previous one.
C3_Claim == ActInFlight <= 1

\* status workers whose thread is running
StatusRunning ==
    (IF isRunning(gui.w_status) THEN 1 ELSE 0)
    + Cardinality({i \in DOMAIN gui.detached : gui.detached[i].sub = "status"})

\* C4: at most one status worker is running at any time.
C4_OneStatusPoll == StatusRunning <= 1

\* C4 witness: the result of the previous status worker is handled while the
\* next one, started after the previous thread ended, is already running
C4_Witness ==
    /\ last.op = "update_status_ui"
    /\ gui.w_status.st = "running"

\* the combined text of a command that exited
Combined(o) == strip(clean_ansi(o.stdout)) \o NL \o strip(clean_ansi(o.stderr))

\* C5: a run reports success iff the command exited with code zero; a non-zero
\* exit reports failure with the combined text, or with the cancelled message
\* when the text contains "pkexec" and "dismissed"; on_act_done then shows the
\* cancelled notice, and the error dialog for any other failure.
C5_ExitCode ==
    /\ last.op = "Worker.run" =>
          \A i \in DOMAIN last.emitted :
              LET o == last.outcome
                  e == last.emitted[i]
              IN  /\ e.success <=> (o.kind = "exit" /\ o.returncode = 0)
                  /\ (o.kind = "exit" /\ o.returncode # 0) =>
                        e.output = IF /\ In(K_pkexec, Combined(o))
                                      /\ In(K_dismissed, Combined(o))
                                   THEN T_CANCEL
                                   ELSE Combined(o)
    /\ (last.op = "on_act_done" /\ ~last.success) =>
          gui.dialog = IF In(T_CANCEL, last.output) THEN "cancelled" ELSE "error"

\* C5 witness: on_act_done has shown the cancelled notice for a dismissed prompt
C5_Witness ==
    /\ last.op = "on_act_done"
    /\ ~last.success
    /\ last.output = T_CANCEL
    /\ gui.dialog = "cancelled"

\* C7: a status result that is indeterminate leaves the label, the current
\* city and the enabled state of both buttons and of the dropdown as they were.
C7_Claim ==
    (last.op = "update_status_ui" /\ Indeterminate(last.output))
    => /\ gui.status_label = last.pre.status_label
       /\ gui.current_city = last.pre.current_city
       /\ gui.btn_connect = last.pre.btn_connect
       /\ gui.btn_disconnect = last.pre.btn_disconnect
       /\ gui.combo_enabled = last.pre.combo_enabled


\* the oldest of the detached workers ends; the workers detached after it
\* move up, so a worker that is never the one to end becomes the oldest
DetachedHeadEnds ==
    /\ gui.detached # <<>>
    /\ process' = "running"
    /\ gui'.detached = Tail(gui.detached)

\* C6: every started worker eventually reports back exactly once: each
\* Worker.run emits exactly one finished(success, output), a timeout or an
\* exception as a failure carrying its text, and no worker stays running for
\* ever, whether an attribute of the window still holds it or not (of the
\* detached workers, again and again none is left or the oldest one ends).
C6_ReportsOnce ==
    /\ [](last.op = "Worker.run" =>
             /\ Len(last.emitted) = 1
             /\ last.outcome.kind = "raise" =>
                   /\ ~last.emitted[1].success
                   /\ last.emitted[1].output = last.outcome.text)
    /\ \A attr \in WorkerAttrs :
          (gui[attr].st = "running") ~> (gui[attr].st # "running")
    /\ []<>(gui.detached = <<>>) \/ []<><<DetachedHeadEnds>>_vars

\* C6 witness: a command that exceeded the timeout has been reported once, as
\* a failure, and the worker that ran it is no longer running
C6_Witness ==
    /\ last.op = "Worker.run"
    /\ last.outcome = Raise(OUT_TIMEOUT)
    /\ Len(last.emitted) = 1
    /\ ~last.emitted[1].success
    /\ last.emitted[1].slot = "on_act_done"
    /\ gui.w_act.st = "finished"


\* parse_locations has just filled the dropdown from last.output
LocationsParsed == last.op = "on_login_checked" /\ last.success

\* the lines parse_locations was given
GivenLines == split(last.output, NL)

\* the ping shown at the front of an entry's text, "[<ping> ms]  ..."
EntryPing(entry) ==
    int(SubSeq(entry.text, 2, find(entry.text, <<" ","m","s","]">>) - 1))

\* the properly formed lines: at least three whitespace-separated tokens, the
\* first a 2-letter alphabetic code, the last a numeric ping
WellFormed(line) ==
    LET tokens == split_ws(line)
    IN  /\ Len(tokens) >= 3
        /\ Len(tokens[1]) = 2
        /\ \A i \in 1..2 : tokens[1][i] \in Range(UpperChars) \cup Range(LowerChars)
        /\ tokens[Len(tokens)] # <<>>
        /\ \A i \in DOMAIN tokens[Len(tokens)] :
              tokens[Len(tokens)][i] \in Range(DigitChars)

\* the dropdown entry a properly formed line gives
EntryOf(line) ==
    [text |-> LocationOf(line).display, data |-> split_ws(line)[1]]

\* C8: after parse_locations the entries of the dropdown are in
\* non-decreasing order of ping, and each entry is built from a line of the
\* output and carries the two-letter code that line starts with.
C8_SortedByPing ==
    LocationsParsed =>
        /\ \A i, j \in DOMAIN gui.combo :
              i < j => EntryPing(gui.combo[i]) <= EntryPing(gui.combo[j])
        /\ \A i \in DOMAIN gui.combo :
              \E k \in DOMAIN GivenLines :
                  /\ WellFormed(GivenLines[k])
                  /\ gui.combo[i] = EntryOf(GivenLines[k])
                  /\ gui.combo[i].data = SubSeq(strip(GivenLines[k]), 1, 2)

\* C8 witness: lines given in descending order of ping, two of them with the
\* same ping, come out ascending with the equal ones in the order given
C8_Witness ==
    /\ LocationsParsed
    /\ GivenLines = <<LINE_DE, LINE_IT, LINE_NO, <<>>>>
    /\ gui.combo[1].data = <<"I","T">>
    /\ gui.combo[2].data = <<"N","O">>
    /\ gui.combo[3].data = <<"D","E">>

\* C9: parse_locations keeps a line if and only if it is properly formed (a
\* 2-letter alphabetic first token, a numeric last token, at least three
\* tokens), and the dropdown holds exactly one entry per kept line.
C9_KeepsWellFormed ==
    LocationsParsed =>
        LET kept == {k \in DOMAIN GivenLines : WellFormed(GivenLines[k])}
        IN  /\ Len(gui.combo) = Cardinality(kept)
            /\ \A k \in kept :
                  Cardinality({i \in DOMAIN gui.combo :
                                  gui.combo[i] = EntryOf(GivenLines[k])})
                  = Cardinality({m \in kept :
                                  EntryOf(GivenLines[m]) = EntryOf(GivenLines[k])})

\* C9 witness: of a line with two tokens, a proper line and a line with a
\* non-numeric ping, only the proper one has an entry
C9_Witness ==
    /\ LocationsParsed
    /\ GivenLines = <<LINE_TWO_TOKENS, LINE_IT, LINE_BAD_PING, <<>>>>
    /\ Len(gui.combo) = 1
    /\ gui.combo[1] = EntryOf(LINE_IT)


\* the result of a successful status poll has just been handled
PollHandled ==
    last.op = "update_status_ui" /\ last.success /\ last.pre.is_logged_in

\* C10: the list of locations is re-derived on every poll: when a successful
\* poll cycle ends, the dropdown holds a list parsed from a list-locations
\* output obtained in that cycle.
C10_Claim == PollHandled => last.pre.list_age = "fresh"

\* C10, amended: the list of locations is derived once, from the output of
\* the list-locations command of the login check at startup; once logged in
\* no list-locations command is running, and no result of a status poll or of
\* an action changes the entries of the dropdown.
C10_ListOnce ==
    /\ LocationsParsed =>
          /\ gui.list_age = "fresh"
          /\ Len(gui.combo)
             = Cardinality({k \in DOMAIN GivenLines : WellFormed(GivenLines[k])})
    /\ gui.is_logged_in => gui.w_login.st # "running"
    /\ last.op \in {"update_status_ui", "on_act_done"} =>
          gui.combo = last.pre.combo

\* C10 witness: a later successful poll cycle has ended with the list of the
\* startup still in the dropdown
C10_Witness ==
    /\ PollHandled
    /\ last.pre.list_age = "stale"
    /\ gui.combo # <<>>
    /\ gui.combo = last.pre.combo


\* C11: a status poll that failed (non-zero exit, timeout or exception) leaves
\* the status label and the current city as they were, whatever text the
\* failed command printed.
C11_Claim ==
    (last.op = "update_status_ui" /\ ~last.success)
    => /\ gui.status_label = last.pre.status_label
       /\ gui.current_city = last.pre.current_city


\* the texts the code ever writes into the status label
StatusTexts ==
    {T_LOADING, T_NOT_FOUND, T_LOGIN_REQUIRED, T_DISCONNECTED, T_CONNECTED,
     T_PASSWORD, T_CHECKING}

\* C12: in every reachable state the status label is one of loading,
\* binary-not-found, login-required, DISCONNECTED, CONNECTED,
\* awaiting-password and checking; no operation writes any other text, in
\* particular never the output of a command.
C12_LabelClosedSet == gui.status_label \in StatusTexts

\* C12 witness: an action succeeded with output that says neither connected
\* nor disconnected, and the label shows the checking text, not the output
C12_Witness ==
    /\ last.op = "on_act_done"
    /\ last.success
    /\ Indeterminate(last.output)
    /\ gui.status_label = T_CHECKING


\* C13: after a connect or disconnect command of a logged-in user failed, a
\* status poll is started (by on_act_done or by a later timer tick), or the
\* label shows CONNECTED or DISCONNECTED again.
C13_Claim ==
    (last.op = "on_act_done" /\ ~last.success /\ gui.is_logged_in)
    ~> \/ isRunning(gui.w_status)
       \/ gui.status_label \in {T_CONNECTED, T_DISCONNECTED}


\* C14: from the start of an action command until on_act_done has run for it,
\* the label stays at the awaiting-password text and the connect and disconnect
\* buttons both stay disabled, also right after a status poll that was started
\* before the click has delivered its result.
C14_Claim ==
    (ActInFlight = 1 /\ last.op = "update_status_ui")
    => /\ gui.status_label = T_PASSWORD
       /\ ~gui.btn_connect
       /\ ~gui.btn_disconnect


\* a step that starts a status command
PollStarted == gui.w_status.st # "running" /\ gui'.w_status.st = "running"

\* the signals a status worker can emit
StatusResults ==
    UNION {LET r == Worker_run(Worker("status", <<>>, FALSE, "update_status_ui"), o)
           IN  {r[i] : i \in DOMAIN r} : o \in StatusOutcomes}

\* C15: no status command is started while the user is not logged in or while
\* the label shows the awaiting-password text, and while the user is not logged
\* in update_status_ui leaves the window as it is for every status result.
C15_NoPollNoUpdate ==
    /\ [][PollStarted => /\ gui'.is_logged_in
                         /\ ~In(T_PASSWORD_KEY, gui'.status_label)]_vars
    /\ [](~gui.is_logged_in
          => \A e \in StatusResults :
                update_status_ui(gui, e.success, e.output) = gui)

\* C15 witness: on_act_done called check_status_routine after a failed action
\* while the label showed the awaiting-password text, and no poll was started
C15_Witness ==
    /\ last.op = "on_act_done"
    /\ ~last.success
    /\ gui.is_logged_in
    /\ In(T_PASSWORD_KEY, gui.status_label)
    /\ ~isRunning(gui.w_status)


\* C16: the controls agree with the label: with the label CONNECTED the connect
\* button and the dropdown are disabled, the disconnect button is enabled and
\* the current city is set; with the label DISCONNECTED the connect button and
\* the dropdown are enabled, the disconnect button is disabled and the current
\* city is empty.
C16_ControlsAgree ==
    /\ gui.status_label = T_CONNECTED
       => /\ ~gui.btn_connect
          /\ ~gui.combo_enabled
          /\ gui.btn_disconnect
          /\ gui.current_city # None
    /\ gui.status_label = T_DISCONNECTED
       => /\ gui.btn_connect
          /\ gui.combo_enabled
          /\ ~gui.btn_disconnect
          /\ gui.current_city = None


\* C16 witness: a status result took the window from CONNECTED to DISCONNECTED
C16_Witness ==
    /\ last.op = "update_status_ui"
    /\ last.pre.status_label = T_CONNECTED
    /\ last.pre.current_city # None
    /\ gui.status_label = T_DISCONNECTED
    /\ gui.btn_connect


\* the threads of a window: the three attributes and the detached workers
Threads(s) == <<s.w_login, s.w_status, s.w_act, s.detached>>

\* C17: a click on Connect with no location selected starts no command and
\* leaves the label, the buttons and the dropdown unchanged; with a location
\* selected it starts exactly one privileged "connect -l <code>" command, with
\* the code of the selected entry.
C17_ConnectWithCode ==
    [][(ClickConnect /\ process' = "running")
       => IF gui.combo_index = 0
          THEN /\ View(gui') = View(gui)
               /\ Threads(gui') = Threads(gui)
               /\ popen' = popen
          ELSE /\ gui'.w_act = [sub |-> "connect",
                                code |-> gui.combo[gui.combo_index].data,
                                needs_root |-> TRUE, slot |-> "on_act_done",
                                st |-> "running"]
               /\ gui'.w_login = gui.w_login
               /\ gui'.w_status = gui.w_status
               /\ gui'.detached
                     = IF gui.w_act.st = "running"
                       THEN Append(gui.detached, gui.w_act)
                       ELSE gui.detached
               /\ gui.combo[gui.combo_index].data \in {CODE_IT, CODE_NO}
               /\ popen' = popen]_vars

\* C17 witness: the startup list-locations command failed for a reason other
\* than login, the dropdown is empty, and a click on Connect has only shown
\* the warning
C17_Witness ==
    /\ gui.is_logged_in
    /\ gui.combo = <<>>
    /\ gui.dialog = "select_location"
    /\ gui.w_act = NoWorker
    /\ gui.status_label # T_PASSWORD


\* the startup command failed with output mentioning "login" or "auth"
LoginFailure(success, output) ==
    ~success /\ (In(K_login, lower(output)) \/ In(K_auth, lower(output)))

\* C18: the login-required screen is absorbing: once the label shows the
\* login-required text it keeps it for as long as the process runs; and after
\* every other outcome of the startup command the main screen is shown and a
\* status poll has been started.
C18_Claim ==
    /\ [][(gui.status_label = T_LOGIN_REQUIRED /\ process' = "running")
          => gui'.status_label = T_LOGIN_REQUIRED]_vars
    /\ []((last.op = "on_login_checked"
            /\ ~LoginFailure(last.success, last.output))
           => /\ {"combo", "btn_connect", "btn_disconnect"} \subseteq gui.visible
              /\ gui.w_status.st = "running")


\* C19: closing the window spawns the detached disconnect command only when
\* the label is CONNECTED and the user answers Yes; Cancel keeps the window and
\* changes nothing, No closes without a command, and with any other label the
\* close is accepted with no question and no command.
C19_CloseSpawns ==
    [][/\ popen' # popen
          => /\ popen' = popen + 1
             /\ gui.status_label = T_CONNECTED
             /\ CloseWindow("Yes")
       /\ \A reply \in {"Yes", "No", "Cancel"} :
             CloseWindow(reply)
             => IF gui.status_label # T_CONNECTED
                THEN /\ process' = "closed"
                     /\ popen' = popen
                     /\ gui'.dialog = "none"
                ELSE /\ gui'.dialog = "close_question"
                     /\ reply = "Yes"
                        => process' = "closed" /\ popen' = popen + 1
                     /\ reply = "No"
                        => process' = "closed" /\ popen' = popen
                     /\ reply = "Cancel"
                        => /\ process' = "running"
                           /\ popen' = popen
                           /\ queue' = queue
                           /\ [gui' EXCEPT !.dialog = gui.dialog] = gui]_vars

\* C19 witness: the window was closed from CONNECTED with the answer Yes and
\* the disconnect command was spawned
C19_Witness ==
    /\ last.op = "closeEvent"
    /\ last.reply = "Yes"
    /\ last.pre.status_label = T_CONNECTED
    /\ process = "closed"
    /\ popen = 1

====
